---------------------------- MODULE Spec2Model ----------------------------
(***************************************************************************)
(* Model of DotMatrixPrometheus: the command line run of dashboard.py      *)
(* (listing, key validation, datetime parsing, range validation, fetch,    *)
(* render) and the pure functions of metrics_base.py and dashboard.py      *)
(* (parse_datetime, calculate_step, calculate_grid).                       *)
(*                                                                         *)
(* Text is a sequence of one-character strings.  A datetime is a record    *)
(* [year, month, day, hour, minute, second]; datetime arithmetic is done   *)
(* on seconds counted from the first day of EpochYear.                     *)
(***************************************************************************)
EXTENDS Integers, Sequences, FiniteSets, TLC

(***************************************************************************)
(* Characters                                                              *)
(***************************************************************************)
Digits == <<"0", "1", "2", "3", "4", "5", "6", "7", "8", "9">>

UpperCase == <<"A", "B", "C", "D", "E", "F", "G", "H", "I", "J", "K", "L", "M",
               "N", "O", "P", "Q", "R", "S", "T", "U", "V", "W", "X", "Y", "Z">>

LowerCase == <<"a", "b", "c", "d", "e", "f", "g", "h", "i", "j", "k", "l", "m",
               "n", "o", "p", "q", "r", "s", "t", "u", "v", "w", "x", "y", "z">>

IsDigit(c) == \E i \in 1..10 : Digits[i] = c

DigitVal(c) == (CHOOSE i \in 1..10 : Digits[i] = c) - 1

\* str.lower() on one character
Lower(c) ==
    IF \E i \in 1..26 : UpperCase[i] = c
    THEN LowerCase[CHOOSE i \in 1..26 : UpperCase[i] = c]
    ELSE c

\* str.lower() on a text
LowerText(s) == [i \in 1..Len(s) |-> Lower(s[i])]

IsSpace(c) == c = " "

RECURSIVE LStrip(_)
LStrip(s) == IF s # <<>> /\ IsSpace(Head(s)) THEN LStrip(Tail(s)) ELSE s

RECURSIVE RStrip(_)
RStrip(s) ==
    IF s # <<>> /\ IsSpace(s[Len(s)]) THEN RStrip(SubSeq(s, 1, Len(s) - 1)) ELSE s

\* str.strip()
Strip(s) == RStrip(LStrip(s))

\* s[p .. p+Len(t)-1] = t, comparing as re.IGNORECASE does
HasPrefixAt(s, p, t) ==
    /\ p + Len(t) - 1 <= Len(s)
    /\ \A k \in 1..Len(t) : Lower(s[p + k - 1]) = Lower(t[k])

\* `needle in hay` for Python strings
IsSubstring(needle, hay) ==
    \E p \in 1..(Len(hay) + 1) :
        /\ p + Len(needle) - 1 <= Len(hay)
        /\ \A k \in 1..Len(needle) : hay[p + k - 1] = needle[k]

(***************************************************************************)
(* Calendar                                                                *)
(***************************************************************************)
IsLeap(y) == (y % 4 = 0) /\ ((y % 100 # 0) \/ (y % 400 = 0))

DaysInMonth(y, m) ==
    IF m = 2 THEN (IF IsLeap(y) THEN 29 ELSE 28)
    ELSE IF m \in {4, 6, 9, 11} THEN 30 ELSE 31

DaysInYear(y) == IF IsLeap(y) THEN 366 ELSE 365

\* the year whose first day is second 0 of the linear time scale
EpochYear == 2024

RECURSIVE DaysBeforeMonth(_, _)
DaysBeforeMonth(y, m) ==
    IF m <= 1 THEN 0 ELSE DaysBeforeMonth(y, m - 1) + DaysInMonth(y, m - 1)

RECURSIVE DaysBeforeYear(_)
DaysBeforeYear(y) ==
    IF y = EpochYear THEN 0
    ELSE IF y > EpochYear THEN DaysBeforeYear(y - 1) + DaysInYear(y - 1)
    ELSE DaysBeforeYear(y + 1) - DaysInYear(y)

\* datetime -> seconds since EpochYear-01-01 00:00:00 (the order and the
\* differences of datetime objects are those of these numbers)
ToSeconds(dt) ==
    (DaysBeforeYear(dt.year) + DaysBeforeMonth(dt.year, dt.month) + dt.day - 1) * 86400
      + dt.hour * 3600 + dt.minute * 60 + dt.second

MkDateTime(y, mo, d, h, mi, s) ==
    [year |-> y, month |-> mo, day |-> d, hour |-> h, minute |-> mi, second |-> s]

(***************************************************************************)
(* datetime.strptime                                                       *)
(***************************************************************************)
MonthAbbr ==
    << <<"j","a","n">>, <<"f","e","b">>, <<"m","a","r">>, <<"a","p","r">>,
       <<"m","a","y">>, <<"j","u","n">>, <<"j","u","l">>, <<"a","u","g">>,
       <<"s","e","p">>, <<"o","c","t">>, <<"n","o","v">>, <<"d","e","c">> >>

MonthFull ==
    << <<"j","a","n","u","a","r","y">>, <<"f","e","b","r","u","a","r","y">>,
       <<"m","a","r","c","h">>, <<"a","p","r","i","l">>, <<"m","a","y">>,
       <<"j","u","n","e">>, <<"j","u","l","y">>, <<"a","u","g","u","s","t">>,
       <<"s","e","p","t","e","m","b","e","r">>, <<"o","c","t","o","b","e","r">>,
       <<"n","o","v","e","m","b","e","r">>, <<"d","e","c","e","m","b","e","r">> >>

\* the value no directive captured
Absent == -1

NoFields ==
    [ok |-> TRUE, Y |-> Absent, m |-> Absent, d |-> Absent, H |-> Absent,
     M |-> Absent, S |-> Absent, b |-> Absent, B |-> Absent, end |-> 0]

\* the regular expression does not match
NoMatch == [NoFields EXCEPT !.ok = FALSE]

DigitAt(s, p) == p <= Len(s) /\ IsDigit(s[p])

TwoDigitVal(s, p) == DigitVal(s[p]) * 10 + DigitVal(s[p + 1])

\* a one- or two-digit field: the two-digit alternatives of the directive's
\* regular expression come first, the one-digit alternative after them
NumericAlts(s, p, lo2, hi2, lo1, hi1) ==
    (IF DigitAt(s, p) /\ DigitAt(s, p + 1)
        /\ TwoDigitVal(s, p) >= lo2 /\ TwoDigitVal(s, p) <= hi2
     THEN << [len |-> 2, val |-> TwoDigitVal(s, p)] >> ELSE << >>)
    \o
    (IF DigitAt(s, p) /\ DigitVal(s[p]) >= lo1 /\ DigitVal(s[p]) <= hi1
     THEN << [len |-> 1, val |-> DigitVal(s[p])] >> ELSE << >>)

\* names of months: no name is a prefix of another, at most one matches
NameAlts(s, p, names) ==
    IF \E k \in 1..12 : HasPrefixAt(s, p, names[k])
    THEN LET k == CHOOSE k \in 1..12 : HasPrefixAt(s, p, names[k])
         IN  << [len |-> Len(names[k]), val |-> k] >>
    ELSE << >>

RECURSIVE SpaceRun(_, _)
SpaceRun(s, p) == IF p <= Len(s) /\ IsSpace(s[p]) THEN 1 + SpaceRun(s, p + 1) ELSE 0

\* The alternatives of one directive at position p, in the order in which the
\* regular expression of _strptime.TimeRE tries them.
DirectiveAlts(tok, s, p) ==
    CASE tok = "%Y" ->
           IF \A k \in 0..3 : DigitAt(s, p + k)
           THEN << [len |-> 4,
                    val |-> DigitVal(s[p]) * 1000 + DigitVal(s[p + 1]) * 100
                            + DigitVal(s[p + 2]) * 10 + DigitVal(s[p + 3])] >>
           ELSE << >>
      [] tok = "%m" -> NumericAlts(s, p, 1, 12, 1, 9)
      [] tok = "%d" ->
           NumericAlts(s, p, 1, 31, 1, 9)
           \o (IF p + 1 <= Len(s) /\ s[p] = " " /\ DigitAt(s, p + 1)
                  /\ DigitVal(s[p + 1]) >= 1
               THEN << [len |-> 2, val |-> DigitVal(s[p + 1])] >> ELSE << >>)
      [] tok = "%H" -> NumericAlts(s, p, 0, 23, 0, 9)
      [] tok = "%M" -> NumericAlts(s, p, 0, 59, 0, 9)
      [] tok = "%S" -> NumericAlts(s, p, 0, 61, 0, 9)
      [] tok = "%b" -> NameAlts(s, p, MonthAbbr)
      [] tok = "%B" -> NameAlts(s, p, MonthFull)
      [] tok = " "  ->     \* \s+, greedy
           LET n == SpaceRun(s, p)
           IN  [k \in 1..n |-> [len |-> n + 1 - k, val |-> Absent]]
      [] OTHER ->          \* an escaped literal character
           IF p <= Len(s) /\ Lower(s[p]) = Lower(tok)
           THEN << [len |-> 1, val |-> Absent] >> ELSE << >>

FieldOf(tok) ==
    CASE tok = "%Y" -> "Y" [] tok = "%m" -> "m" [] tok = "%d" -> "d"
      [] tok = "%H" -> "H" [] tok = "%M" -> "M" [] tok = "%S" -> "S"
      [] tok = "%b" -> "b" [] tok = "%B" -> "B" [] OTHER -> "end"

\* re.match of the format's regular expression at position p of s, from the
\* i-th token of the format on: the first way to match in backtracking order.
RECURSIVE MatchFrom(_, _, _, _)
RECURSIVE TryAlts(_, _, _, _, _, _)
RECURSIVE MatchRest(_, _, _, _, _, _, _)
MatchFrom(fmt, i, s, p) ==
    IF i > Len(fmt) THEN [NoFields EXCEPT !.end = p]
    ELSE TryAlts(fmt, i, s, p, DirectiveAlts(fmt[i], s, p), 1)

\* the a-th alternative of the i-th token, then the rest of the format
TryAlts(fmt, i, s, p, alts, a) ==
    IF a > Len(alts) THEN NoMatch
    ELSE MatchRest(MatchFrom(fmt, i + 1, s, p + alts[a].len), fmt, i, s, p, alts, a)

\* backtrack to the next alternative when the rest does not match
MatchRest(rest, fmt, i, s, p, alts, a) ==
    IF ~rest.ok THEN TryAlts(fmt, i, s, p, alts, a + 1)
    ELSE IF alts[a].val = Absent THEN rest
    ELSE [rest EXCEPT ![FieldOf(fmt[i])] = alts[a].val]

ValueError == [error |-> "ValueError"]

\* the default of a field the format does not name
Default(v, dflt) == IF v = Absent THEN dflt ELSE v

\* the month of the matched fields: %m, %B or %b, January without them
MonthOfFields(f) ==
    IF f.m # Absent THEN f.m ELSE IF f.B # Absent THEN f.B ELSE Default(f.b, 1)

\* the datetime of the matched fields f of a text of length n: the match must
\* cover the whole text ("unconverted data remains" otherwise), and the
\* fields must form a date and a time
DateOfFields(f, n) ==
    IF ~f.ok THEN ValueError
    ELSE IF f.end # n + 1 THEN ValueError
    ELSE IF \/ Default(f.Y, 1900) < 1
            \/ Default(f.d, 1) > DaysInMonth(Default(f.Y, 1900), MonthOfFields(f))
            \/ Default(f.S, 0) > 59
         THEN ValueError
         ELSE MkDateTime(Default(f.Y, 1900), MonthOfFields(f), Default(f.d, 1),
                         Default(f.H, 0), Default(f.M, 0), Default(f.S, 0))

\* datetime.strptime(s, fmt)
strptime(s, fmt) == DateOfFields(MatchFrom(fmt, 1, s, 1), Len(s))

(***************************************************************************)
(* parse_datetime                                                          *)
(***************************************************************************)
\* the formats with the day-month form tried before the month-day forms
formats_day_first ==
    << <<"%Y", "-", "%m", "-", "%d", " ", "%H", ":", "%M">>,
       <<"%Y", "-", "%m", "-", "%d", " ", "%H", ":", "%M", ":", "%S">>,
       <<"%Y", "-", "%m", "-", "%d", "T", "%H", ":", "%M">>,
       <<"%Y", "-", "%m", "-", "%d", "T", "%H", ":", "%M", ":", "%S">>,
       <<"%Y", "/", "%m", "/", "%d", " ", "%H", ":", "%M">>,
       <<"%Y", "/", "%m", "/", "%d", " ", "%H", ":", "%M", ":", "%S">>,
       <<"%d", "-", "%m", " ", "%H", ":", "%M">>,
       <<"%m", "-", "%d", " ", "%H", ":", "%M">>,
       <<"%m", "/", "%d", " ", "%H", ":", "%M">>,
       <<"%b", " ", "%d", " ", "%H", ":", "%M">>,
       <<"%B", " ", "%d", " ", "%H", ":", "%M">>,
       <<"%d", " ", "%b", " ", "%H", ":", "%M">>,
       <<"%d", " ", "%B", " ", "%H", ":", "%M">>,
       <<"%b", " ", "%d", " ", "%Y", " ", "%H", ":", "%M">>,
       <<"%B", " ", "%d", " ", "%Y", " ", "%H", ":", "%M">>,
       <<"%d", "-", "%b", "-", "%Y", " ", "%H", ":", "%M">>,
       <<"%d", "-", "%B", "-", "%Y", " ", "%H", ":", "%M">>,
       <<"%H", ":", "%M">>,
       <<"%H", ":", "%M", ":", "%S">>,
       <<"%Y", "-", "%m", "-", "%d">>,
       <<"%m", "-", "%d">>,
       <<"%m", "/", "%d">>,
       <<"%b", " ", "%d">>,
       <<"%B", " ", "%d">> >>

\* the formats of parse_datetime, in the order of the list
formats ==
    << <<"%Y", "-", "%m", "-", "%d", " ", "%H", ":", "%M">>,
       <<"%Y", "-", "%m", "-", "%d", " ", "%H", ":", "%M", ":", "%S">>,
       <<"%Y", "-", "%m", "-", "%d", "T", "%H", ":", "%M">>,
       <<"%Y", "-", "%m", "-", "%d", "T", "%H", ":", "%M", ":", "%S">>,
       <<"%Y", "/", "%m", "/", "%d", " ", "%H", ":", "%M">>,
       <<"%Y", "/", "%m", "/", "%d", " ", "%H", ":", "%M", ":", "%S">>,
       <<"%m", "-", "%d", " ", "%H", ":", "%M">>,
       <<"%m", "/", "%d", " ", "%H", ":", "%M">>,
       <<"%d", "-", "%m", " ", "%H", ":", "%M">>,
       <<"%b", " ", "%d", " ", "%H", ":", "%M">>,
       <<"%B", " ", "%d", " ", "%H", ":", "%M">>,
       <<"%d", " ", "%b", " ", "%H", ":", "%M">>,
       <<"%d", " ", "%B", " ", "%H", ":", "%M">>,
       <<"%b", " ", "%d", " ", "%Y", " ", "%H", ":", "%M">>,
       <<"%B", " ", "%d", " ", "%Y", " ", "%H", ":", "%M">>,
       <<"%d", "-", "%b", "-", "%Y", " ", "%H", ":", "%M">>,
       <<"%d", "-", "%B", "-", "%Y", " ", "%H", ":", "%M">>,
       <<"%H", ":", "%M">>,
       <<"%H", ":", "%M", ":", "%S">>,
       <<"%Y", "-", "%m", "-", "%d">>,
       <<"%m", "-", "%d">>,
       <<"%m", "/", "%d">>,
       <<"%b", " ", "%d">>,
       <<"%B", " ", "%d">> >>

\* "If year is 1900 (default when not specified), use default_year":
\* dt.replace(year=default_year), which raises ValueError for a day the month
\* does not have in that year
YearRule(dt, default_year) ==
    IF dt = ValueError THEN ValueError
    ELSE IF dt.year = 1900
         THEN (IF dt.day > DaysInMonth(default_year, dt.month) THEN ValueError
               ELSE [dt EXCEPT !.year = default_year])
         ELSE dt

\* one turn of the loop over the formats: strptime, then the year rule
TryFormat(dt_string, fmt, default_year) ==
    YearRule(strptime(dt_string, fmt), default_year)

\* the ValueError raised after the loop: it carries the (stripped) text and
\* the examples of supported formats
CouldNotParse(dt_string) ==
    [error |-> "ValueError",
     text |-> dt_string,
     examples |-> << "'2024-11-13 08:00'", "'11-13 08:00' or '11/13 08:00'",
                     "'Nov 13 08:00' or 'November 13 08:00'",
                     "'08:00' (uses today's date)" >>]

\* whether a call returned a datetime or raised ValueError
IsValueError(dt) == "error" \in DOMAIN dt

RECURSIVE ParseWith(_, _, _)
RECURSIVE ReturnOrContinue(_, _, _, _)
\* the loop over the formats, from the k-th on
ParseWith(dt_string, k, default_year) ==
    IF k > Len(formats) THEN CouldNotParse(dt_string)
    ELSE ReturnOrContinue(TryFormat(dt_string, formats[k], default_year),
                          dt_string, k, default_year)

\* `return dt`, or `except ValueError: continue`
ReturnOrContinue(dt, dt_string, k, default_year) ==
    IF dt = ValueError THEN ParseWith(dt_string, k + 1, default_year) ELSE dt

\* parse_datetime without `dt_string = dt_string.strip()`
parse_datetime_unstripped(dt_string, default_year) ==
    ParseWith(dt_string, 1, default_year)

\* parse_datetime(dt_string, default_year): a datetime, or the ValueError
\* raised when no format of the list matches the stripped text
parse_datetime(dt_string, default_year) ==
    ParseWith(Strip(dt_string), 1, default_year)

(***************************************************************************)
(* datetime.strftime                                                       *)
(***************************************************************************)
DigitChar(n) == Digits[n + 1]

Pad2(n) == << DigitChar(n \div 10), DigitChar(n % 10) >>

Pad4(n) ==
    << DigitChar(n \div 1000), DigitChar((n \div 100) % 10),
       DigitChar((n \div 10) % 10), DigitChar(n % 10) >>

\* dt.strftime("%Y-%m-%d %H:%M")
FormatCanonical(dt) ==
    Pad4(dt.year) \o <<"-">> \o Pad2(dt.month) \o <<"-">> \o Pad2(dt.day)
      \o <<" ">> \o Pad2(dt.hour) \o <<":">> \o Pad2(dt.minute)

(***************************************************************************)
(* Optional values                                                         *)
(***************************************************************************)
\* Python's None, and a value that is present
None == << >>

Some(v) == << v >>

Get(o) == o[1]

(***************************************************************************)
(* calculate_step and calculate_grid                                       *)
(***************************************************************************)
\* calculate_step with `<` for `<=`: a boundary falls into the coarser step
calculate_step_strict(start_time, end_time) ==
    LET duration == end_time - start_time
    IN  IF duration < 60 * 60 THEN "30s"
        ELSE IF duration < 180 * 60 THEN "1m"
        ELSE IF duration < 720 * 60 THEN "2m"
        ELSE IF duration < 1440 * 60 THEN "5m"
        ELSE IF duration < 4320 * 60 THEN "15m"
        ELSE IF duration < 10080 * 60 THEN "30m"
        ELSE "1h"

\* calculate_step with the steps of two rows exchanged
calculate_step_swapped(start_time, end_time) ==
    LET duration == end_time - start_time
    IN  IF duration <= 60 * 60 THEN "30s"
        ELSE IF duration <= 180 * 60 THEN "1m"
        ELSE IF duration <= 720 * 60 THEN "5m"
        ELSE IF duration <= 1440 * 60 THEN "2m"
        ELSE IF duration <= 4320 * 60 THEN "15m"
        ELSE IF duration <= 10080 * 60 THEN "30m"
        ELSE "1h"

\* timedelta of `seconds` seconds: .total_seconds() / 60 <= m  iff  seconds <= m * 60.
\* start_time and end_time are datetimes in seconds since the epoch year.
calculate_step(start_time, end_time) ==
    LET duration == end_time - start_time
    IN  IF duration <= 60 * 60 THEN "30s"
        ELSE IF duration <= 180 * 60 THEN "1m"
        ELSE IF duration <= 720 * 60 THEN "2m"
        ELSE IF duration <= 1440 * 60 THEN "5m"
        ELSE IF duration <= 4320 * 60 THEN "15m"
        ELSE IF duration <= 10080 * 60 THEN "30m"
        ELSE "1h"

\* Python's floor division and remainder (the remainder has the sign of b)
PyFloorDiv(a, b) ==
    IF b > 0 THEN (IF a >= 0 THEN a \div b ELSE -(((-a) + b - 1) \div b))
    ELSE (IF a <= 0 THEN (-a) \div (-b) ELSE -((a + (-b) - 1) \div (-b)))

PyMod(a, b) == a - b * PyFloorDiv(a, b)

\* math.ceil(a / b) for integers a, b with b # 0
CeilDiv(a, b) == -PyFloorDiv(-a, b)

\* calculate_grid with the two dimensions of the last row exchanged
calculate_grid_transposed(num_charts, cols) ==
    IF cols # None /\ Get(cols) # 0
    THEN << CeilDiv(num_charts, Get(cols)), Get(cols) >>
    ELSE IF num_charts = 1 THEN << 1, 1 >>
    ELSE IF num_charts = 2 THEN << 1, 2 >>
    ELSE IF num_charts <= 4 THEN << 2, 2 >>
    ELSE IF num_charts <= 6 THEN << 2, 3 >>
    ELSE IF num_charts <= 9 THEN << 3, 3 >>
    ELSE IF num_charts <= 12 THEN << 3, 4 >>
    ELSE << 4, CeilDiv(num_charts, 4) >>

\* calculate_grid(num_charts, cols): cols is None or Some(integer);
\* `if cols:` is false for None and for 0
calculate_grid(num_charts, cols) ==
    IF cols # None /\ Get(cols) # 0
    THEN << CeilDiv(num_charts, Get(cols)), Get(cols) >>
    ELSE IF num_charts = 1 THEN << 1, 1 >>
    ELSE IF num_charts = 2 THEN << 1, 2 >>
    ELSE IF num_charts <= 4 THEN << 2, 2 >>
    ELSE IF num_charts <= 6 THEN << 2, 3 >>
    ELSE IF num_charts <= 9 THEN << 3, 3 >>
    ELSE IF num_charts <= 12 THEN << 3, 4 >>
    ELSE << CeilDiv(num_charts, 4), 4 >>

(***************************************************************************)
(* The metric catalog (a part of AVAILABLE_METRICS, in the order of the    *)
(* dictionary)                                                             *)
(***************************************************************************)
KeyEtcdDbSize == <<"e", "t", "c", "d", "-", "d", "b", "-", "s", "i", "z", "e">>

KeyEtcdCpu == <<"e", "t", "c", "d", "-", "c", "p", "u">>

KeyEtcdMemory == <<"e", "t", "c", "d", "-", "m", "e", "m", "o", "r", "y">>

KeyEtcdKeys == <<"e", "t", "c", "d", "-", "k", "e", "y", "s">>

KeyClusterCpu == <<"c", "l", "u", "s", "t", "e", "r", "-", "c", "p", "u">>

KeyClusterMemory == <<"c", "l", "u", "s", "t", "e", "r", "-", "m", "e", "m", "o", "r", "y">>

AVAILABLE_METRICS ==
    << [key |-> KeyEtcdDbSize, title |-> "Etcd DB Size", unit |-> "GB",
        has_transform |-> TRUE],
       [key |-> KeyEtcdCpu, title |-> "Etcd CPU Usage", unit |-> "%",
        has_transform |-> FALSE],
       [key |-> KeyEtcdMemory, title |-> "Etcd Memory Usage", unit |-> "GB",
        has_transform |-> TRUE],
       [key |-> KeyEtcdKeys, title |-> "Etcd Keys Count", unit |-> "keys",
        has_transform |-> FALSE],
       [key |-> KeyClusterCpu, title |-> "Cluster CPU Usage", unit |-> "%",
        has_transform |-> FALSE],
       [key |-> KeyClusterMemory, title |-> "Cluster Memory Usage", unit |-> "GB",
        has_transform |-> TRUE] >>

\* `metric_name in AVAILABLE_METRICS`
InCatalog(metric_name) ==
    \E k \in 1..Len(AVAILABLE_METRICS) : AVAILABLE_METRICS[k].key = metric_name

\* AVAILABLE_METRICS[metric_name]
MetricClass(metric_name) ==
    AVAILABLE_METRICS[CHOOSE k \in 1..Len(AVAILABLE_METRICS) :
                          AVAILABLE_METRICS[k].key = metric_name]

\* bytes in a GB: value / (1024 ** 3)
GB == 1073741824

\* metric_class.transform(val) when the class has one; the sample values of
\* the model are whole numbers of GB, on which the division is exact
ApplyTransform(metric_class, val) ==
    IF metric_class.has_transform THEN val \div GB ELSE val

RECURSIVE SelectSeq2(_, _, _)
SelectSeq2(s, Test(_), k) ==
    IF k > Len(s) THEN << >>
    ELSE (IF Test(s[k]) THEN << s[k] >> ELSE << >>) \o SelectSeq2(s, Test, k + 1)

\* [x for x in s if Test(x)]
Filter(s, Test(_)) == SelectSeq2(s, Test, 1)

\* s[:n]
Take(s, n) == SubSeq(s, 1, IF Len(s) < n THEN Len(s) ELSE n)

\* the suggestions without the cut to three
SuggestionsUncut(metric_name) ==
    LET keys == [k \in 1..Len(AVAILABLE_METRICS) |-> AVAILABLE_METRICS[k].key]
        hit(k) == IsSubstring(LowerText(metric_name), LowerText(k))
    IN  Filter(keys, hit)

\* [k for k in AVAILABLE_METRICS.keys() if metric_name.lower() in k.lower()][:3]
Suggestions(metric_name) ==
    LET keys == [k \in 1..Len(AVAILABLE_METRICS) |-> AVAILABLE_METRICS[k].key]
        hit(k) == IsSubstring(LowerText(metric_name), LowerText(k))
    IN  Take(Filter(keys, hit), 3)

(***************************************************************************)
(* State                                                                   *)
(***************************************************************************)
VARIABLES
    args,           \* the parsed command line (argparse namespace)
    now,            \* the clock: datetime.now(), in seconds since the epoch year
    pc,             \* the position of the run in dashboard.py's __main__
    start_time,     \* None or Some(datetime in seconds)
    end_time,       \* None or Some(datetime in seconds)
    valid_metrics,  \* the keys found in the catalog, in the order given
    grid,           \* None or Some(<<rows, cols>>) of draw_multi_chart
    all_data,       \* draw_multi_chart's all_data / draw_chart's (x_labels, y)
    queries,        \* the range queries issued to the backend, in order, each with
                    \* the clock its get_data read and whether the query raised
    surface,        \* the calls made on the rendering surface (plotext), in order
    output,         \* what the run printed, in order
    exit_code,      \* None or Some(code) once the process has ended
    call,           \* the arguments of a call of a pure function
    ret             \* None or Some(result) of that call

cliVars ==
    << args, now, pc, start_time, end_time, valid_metrics, grid, all_data,
       queries, surface, output, exit_code >>

callVars == << call, ret >>

vars == << cliVars, callVars >>

(***************************************************************************)
(* Inputs of the command line run                                          *)
(***************************************************************************)
\* most metric keys on one command line
MaxMetrics == 2

\* most seconds that pass between two readings of the clock
MaxElapsed == 1

KeyBogus == <<"b", "o", "g", "u", "s", "-", "k", "e", "y">>

KeyEtcd == <<"e", "t", "c", "d">>

\* the keys a command line may name: two of the catalog, two unknown
RequestKeys == { KeyClusterCpu, KeyEtcdMemory, KeyBogus, KeyEtcd }

RECURSIVE SeqsUpTo(_, _)
SeqsUpTo(S, n) ==
    IF n = 0 THEN { << >> }
    ELSE LET shorter == SeqsUpTo(S, n - 1)
         IN  shorter \cup { Append(q, x) : q \in shorter, x \in S }

TextEarly == <<"2", "0", "2", "4", "-", "1", "1", "-", "1", "3", " ", "0", "8", ":", "0", "0">>

TextLate == <<"2", "0", "2", "4", "-", "1", "1", "-", "1", "3", " ", "1", "0", ":", "0", "0">>

TextBogus == <<"b", "o", "g", "u", "s">>

\* --from / --to: omitted, before the clock, after the clock, unparseable
TimeArgs == { None, Some(TextEarly), Some(TextLate), Some(TextBogus) }

\* --minutes (type=int, default 60)
MinuteArgs == { -5, 60 }

\* --cols (type=int, default None)
ColsArgs == { None, Some(-2) }

\* the --list flags: none, --list, --list-etcd
ListArgs == { "", "list", "list_etcd" }

DEFAULT_PROMETHEUS_URL == "http://localhost:9090"

\* the clock when the run starts: 2024-11-13 09:00:00
NowStart == ToSeconds(MkDateTime(2024, 11, 13, 9, 0, 0))

\* datetime.now().year
YearOf(secs) ==
    CHOOSE y \in (EpochYear - 3)..(EpochYear + 3) :
        /\ DaysBeforeYear(y) * 86400 <= secs
        /\ secs < DaysBeforeYear(y + 1) * 86400

(***************************************************************************)
(* The backend                                                             *)
(***************************************************************************)
\* a series of the backend: samples (timestamp, value)
SeriesA ==
    [values |-> << << NowStart - 60, GB >>, << NowStart - 30, 0 >> >>]

SeriesB == [values |-> << << NowStart - 60, GB >> >>]

\* what custom_query_range may return: no series, one series, two series
Responses == { << >>, << SeriesA >>, << SeriesB, SeriesA >> }

\* what custom_query_range may raise: the exception's class and the messages
\* of the exception, of its __cause__, of the __cause__ of that, ...
Exceptions ==
    { [class |-> "ConnectionError", chain |-> << "connection aborted" >>],
      [class |-> "NewConnectionError",
       chain |-> << "failed to establish", "connection refused" >>],
      [class |-> "MaxRetryError",
       chain |-> << "max retries exceeded", "failed to establish",
                    "name or service not known" >>],
      [class |-> "RequestException", chain |-> << "invalid url" >>],
      [class |-> "ConnectionError",
       chain |-> << "connection aborted", "max retries exceeded",
                    "failed to establish", "connection reset by peer" >>] }

(***************************************************************************)
(* MetricFetcher.get_data                                                  *)
(***************************************************************************)
\* whether get_data reads the clock: it does unless end_time is given
ReadsClock(st, et) == et = None

\* the time range with the look-back applied also when start_time is given
ResolveWindowLookBack(st, et, minutes, clock) ==
    IF et # None THEN << Get(et) - minutes * 60, Get(et) >>
    ELSE IF st # None THEN << Get(st), clock >>
    ELSE << clock - minutes * 60, clock >>

\* "Determine time range": <<start_time, end_time>> of the range query.
\* st, et are None or Some(seconds); clock is datetime.now() when it is read.
ResolveWindow(st, et, minutes, clock) ==
    IF st # None /\ et # None THEN << Get(st), Get(et) >>
    ELSE IF st # None THEN << Get(st), clock >>
    ELSE IF et # None THEN << Get(et) - minutes * 60, Get(et) >>
    ELSE << clock - minutes * 60, clock >>

\* the call of custom_query_range: query, start_time, end_time, step
RangeQuery(metric_class, window) ==
    [query |-> metric_class.key, start |-> window[1], end |-> window[2],
     step |-> calculate_step(window[1], window[2])]

\* timedelta.days of a difference of `seconds` seconds
TimedeltaDays(seconds) == PyFloorDiv(seconds, 86400)

\* the label of one sample: its timestamp and the strftime format used on it
LabelOf(ts, window) ==
    [format |-> IF TimedeltaDays(window[2] - window[1]) > 0
                THEN "%m/%d %H:%M" ELSE "%H:%M",
     ts |-> ts]

\* GetDataReturn that takes the last series of the result, not the first
GetDataReturnLastSeries(metric_class, window, result) ==
    IF result = << >> THEN [x_labels |-> None, y |-> None]
    ELSE LET data_points == result[Len(result)].values
         IN  [x_labels |->
                 Some([k \in 1..Len(data_points) |->
                          LabelOf(data_points[k][1], window)]),
              y |->
                 Some([k \in 1..Len(data_points) |->
                          ApplyTransform(metric_class, data_points[k][2])])]

\* what get_data returns for the backend's result: (None, None) when the
\* result is empty, else the labels and values of the first series
GetDataReturn(metric_class, window, result) ==
    IF result = << >> THEN [x_labels |-> None, y |-> None]
    ELSE LET data_points == result[1].values
         IN  [x_labels |->
                 Some([k \in 1..Len(data_points) |->
                          LabelOf(data_points[k][1], window)]),
              y |->
                 Some([k \in 1..Len(data_points) |->
                          ApplyTransform(metric_class, data_points[k][2])])]

\* ConnectionErrorOf with the one message, and its four-item checklist, for
\* every exception
ConnectionErrorOfUniform(url, e) ==
    [head |-> "Cannot connect to Prometheus at", url |-> url,
     error |-> IF Len(e.chain) >= 3 THEN e.chain[3]
               ELSE IF Len(e.chain) = 2 THEN e.chain[2] ELSE e.chain[1],
     checklist |-> << "url", "server", "network_dns", "firewall" >>]

\* the PrometheusConnectionError raised for an exception of the query
ConnectionErrorOf(url, e) ==
    IF e.class \in { "ConnectionError", "NewConnectionError", "MaxRetryError" }
    THEN [head |-> "Cannot connect to Prometheus at", url |-> url,
          error |-> IF Len(e.chain) >= 3 THEN e.chain[3]
                    ELSE IF Len(e.chain) = 2 THEN e.chain[2] ELSE e.chain[1],
          checklist |-> << "url", "server", "network_dns", "firewall" >>]
    ELSE [head |-> "Request to Prometheus failed at", url |-> url,
          error |-> e.chain[1],
          checklist |-> << "url", "server" >>]

\* the record of one call of get_data: the range query it issued, the clock
\* it read (None when it read none), whether the query raised, and what the
\* backend answered (the result, or the exception raised)
Issued(metric_class, st, et, window, raised, answer) ==
    [call |-> RangeQuery(metric_class, window),
     clock |-> IF ReadsClock(st, et) THEN Some(window[2]) ELSE None,
     raised |-> raised,
     answer |-> answer]

(***************************************************************************)
(* Rendering                                                               *)
(***************************************************************************)
CHART_COLORS ==
    << "green", "cyan", "yellow", "magenta", "red", "blue", "orange", "white" >>

Min(a, b) == IF a <= b THEN a ELSE b

\* list(range(0, n, step)) for step >= 1
RECURSIVE RangeFrom(_, _, _)
RangeFrom(i, n, step) ==
    IF i >= n THEN << >> ELSE << i >> \o RangeFrom(i + step, n, step)

\* LabelIndices with the range taken up to and including len
LabelIndicesInclusive(len, cap) ==
    LET num_labels == Min(cap, len)
    IN  IF len > num_labels
        THEN RangeFrom(0, len + 1, len \div num_labels)
        ELSE RangeFrom(0, len, 1)

\* the indices (from 0) of the labels shown: at most `cap` when the series
\* is longer than that
LabelIndices(len, cap) ==
    LET num_labels == Min(cap, len)
    IN  IF len > num_labels
        THEN RangeFrom(0, len, len \div num_labels)
        ELSE RangeFrom(0, len, 1)

\* the calls draw_chart makes on the surface for a series that has data
ChartOps(metric_class, x_labels, y, st, et) ==
    << [op |-> "clear_figure"], [op |-> "theme"],
       [op |-> "plot", n |-> Len(x_labels), y |-> y, color |-> "green"],
       [op |-> "xticks", indices |-> LabelIndices(Len(x_labels), 10)],
       [op |-> "title", title |-> metric_class.title,
        range |-> st # None /\ et # None],
       [op |-> "ylabel", unit |-> metric_class.unit],
       [op |-> "xlabel"], [op |-> "grid"], [op |-> "show"] >>

\* PanelOps with row and column exchanged: the grid is filled column by column
PanelOpsColumnMajor(i, entry, cols) ==
    << [op |-> "subplot", row |-> PyMod(i, cols) + 1, col |-> PyFloorDiv(i, cols) + 1] >>
    \o (IF entry.x_labels # None /\ entry.y # None
        THEN << [op |-> "plot", n |-> Len(Get(entry.x_labels)), y |-> Get(entry.y),
                 color |-> CHART_COLORS[(i % Len(CHART_COLORS)) + 1]],
                [op |-> "xticks",
                 indices |-> LabelIndices(Len(Get(entry.x_labels)), 5)] >>
        ELSE << [op |-> "plot", n |-> 1, y |-> << 0 >>, color |-> "default"] >>)
    \o << [op |-> "title", title |-> MetricClass(entry.metric).title,
           range |-> FALSE],
          [op |-> "ylabel", unit |-> MetricClass(entry.metric).unit],
          [op |-> "grid"] >>

\* PanelOps that draws nothing for an entry without data
PanelOpsOmitEmpty(i, entry, cols) ==
    IF entry.x_labels # None /\ entry.y # None
    THEN << [op |-> "subplot", row |-> PyFloorDiv(i, cols) + 1,
             col |-> PyMod(i, cols) + 1],
            [op |-> "plot", n |-> Len(Get(entry.x_labels)), y |-> Get(entry.y),
             color |-> CHART_COLORS[(i % Len(CHART_COLORS)) + 1]],
            [op |-> "xticks",
             indices |-> LabelIndices(Len(Get(entry.x_labels)), 5)],
            [op |-> "title", title |-> MetricClass(entry.metric).title,
             range |-> FALSE],
            [op |-> "ylabel", unit |-> MetricClass(entry.metric).unit],
            [op |-> "grid"] >>
    ELSE << >>

\* the calls draw_multi_chart makes for panel i (from 0) of a grid of `cols`
\* columns; the titles of the catalog are shorter than 40 characters and are
\* shown whole
PanelOps(i, entry, cols) ==
    << [op |-> "subplot", row |-> PyFloorDiv(i, cols) + 1, col |-> PyMod(i, cols) + 1] >>
    \o (IF entry.x_labels # None /\ entry.y # None
        THEN << [op |-> "plot", n |-> Len(Get(entry.x_labels)), y |-> Get(entry.y),
                 color |-> CHART_COLORS[(i % Len(CHART_COLORS)) + 1]],
                [op |-> "xticks",
                 indices |-> LabelIndices(Len(Get(entry.x_labels)), 5)] >>
        ELSE << [op |-> "plot", n |-> 1, y |-> << 0 >>, color |-> "default"] >>)
    \o << [op |-> "title", title |-> MetricClass(entry.metric).title,
           range |-> FALSE],
          [op |-> "ylabel", unit |-> MetricClass(entry.metric).unit],
          [op |-> "grid"] >>

\* AllPanelOps that walks all_data from its end: panel i shows the last but i
RECURSIVE AllPanelOpsReversed(_, _, _)
AllPanelOpsReversed(data, i, cols) ==
    IF i >= Len(data) THEN << >>
    ELSE PanelOps(i, data[Len(data) - i], cols)
         \o AllPanelOpsReversed(data, i + 1, cols)

RECURSIVE AllPanelOps(_, _, _)
AllPanelOps(data, i, cols) ==
    IF i >= Len(data) THEN << >>
    ELSE PanelOps(i, data[i + 1], cols) \o AllPanelOps(data, i + 1, cols)

\* the calls draw_multi_chart makes on the surface once all data is fetched
MultiChartOps(data, g) ==
    << [op |-> "clear_figure"], [op |-> "theme"],
       [op |-> "subplots", rows |-> g[1], cols |-> g[2]] >>
    \o AllPanelOps(data, 0, g[2])
    \o << [op |-> "show"] >>

(***************************************************************************)
(* The command line run: dashboard.py __main__                             *)
(***************************************************************************)
ArgSpace ==
    [listing : ListArgs,
     metrics : SeqsUpTo(RequestKeys, MaxMetrics),
     prometheus_url : { DEFAULT_PROMETHEUS_URL },
     start_time : TimeArgs,
     end_time : TimeArgs,
     minutes : MinuteArgs,
     cols : ColsArgs]

\* no call of a pure function is under way
NoCall == [fn |-> "main"]

InitCli ==
    /\ args \in ArgSpace
    /\ now = NowStart
    /\ pc = "list_check"
    /\ start_time = None
    /\ end_time = None
    /\ valid_metrics = << >>
    /\ grid = None
    /\ all_data = << >>
    /\ queries = << >>
    /\ surface = << >>
    /\ output = << >>
    /\ exit_code = None

Init ==
    /\ InitCli
    /\ call = NoCall
    /\ ret = None

\* sys.exit(code) after printing `lines`
Exit(code, lines) ==
    /\ pc' = "exit"
    /\ exit_code' = Some(code)
    /\ output' = output \o lines

\* HandleList that knows --list alone: a --list-* flag is passed over
HandleListOnlyAll ==
    /\ pc = "list_check"
    /\ IF args.listing = "list"
       THEN Exit(0, << [kind |-> "listing", flag |-> args.listing] >>)
       ELSE pc' = "require_metrics" /\ UNCHANGED << exit_code, output >>
    /\ UNCHANGED << args, now, start_time, end_time, valid_metrics, grid,
                    all_data, queries, surface, callVars >>

\* "Handle --list" and the --list-* flags
HandleList ==
    /\ pc = "list_check"
    /\ IF args.listing # ""
       THEN Exit(0, << [kind |-> "listing", flag |-> args.listing] >>)
       ELSE pc' = "require_metrics" /\ UNCHANGED << exit_code, output >>
    /\ UNCHANGED << args, now, start_time, end_time, valid_metrics, grid,
                    all_data, queries, surface, callVars >>

\* "Require metric(s) if not listing"
RequireMetrics ==
    /\ pc = "require_metrics"
    /\ IF args.metrics = << >>
       THEN Exit(1, << [kind |-> "no_metrics"] >>)
       ELSE pc' = "validate_metrics" /\ UNCHANGED << exit_code, output >>
    /\ UNCHANGED << args, now, start_time, end_time, valid_metrics, grid,
                    all_data, queries, surface, callVars >>

NotInCatalog(metric_name) == ~InCatalog(metric_name)

\* the report printed for one unknown key
UnknownReport(metric_name) ==
    [kind |-> "unknown_metric", name |-> metric_name,
     suggestions |-> Suggestions(metric_name)]

\* "Validate all metric selections"
ValidateMetrics ==
    /\ pc = "validate_metrics"
    /\ LET invalid == Filter(args.metrics, NotInCatalog)
           valid == Filter(args.metrics, InCatalog)
       IN  /\ valid_metrics' = valid
           /\ IF invalid # << >>
              THEN Exit(1, [k \in 1..Len(invalid) |-> UnknownReport(invalid[k])])
              ELSE pc' = "parse_from" /\ UNCHANGED << exit_code, output >>
    /\ UNCHANGED << args, now, start_time, end_time, grid, all_data, queries,
                    surface, callVars >>

\* `if args.start_time:` is false for None and for the empty text
Truthy(opt_text) == opt_text # None /\ Get(opt_text) # << >>

\* the `try: ... = parse_datetime(...) except ValueError: sys.exit(1)` of
\* one datetime argument: dt is what parse_datetime returned or raised
ParsedFrom(dt) ==
    IF IsValueError(dt)
    THEN /\ Exit(1, << [kind |-> "invalid_from", error |-> dt] >>)
         /\ UNCHANGED start_time
    ELSE /\ start_time' = Some(ToSeconds(dt))
         /\ pc' = "parse_to"
         /\ UNCHANGED << exit_code, output >>

ParsedTo(dt) ==
    IF IsValueError(dt)
    THEN /\ Exit(1, << [kind |-> "invalid_to", error |-> dt] >>)
         /\ UNCHANGED end_time
    ELSE /\ end_time' = Some(ToSeconds(dt))
         /\ pc' = "validate_range"
         /\ UNCHANGED << exit_code, output >>

\* "Parse datetime arguments": --from
ParseFrom ==
    /\ pc = "parse_from"
    /\ IF Truthy(args.start_time)
       THEN ParsedFrom(parse_datetime(Get(args.start_time), YearOf(now)))
       ELSE /\ pc' = "parse_to"
            /\ UNCHANGED << start_time, exit_code, output >>
    /\ UNCHANGED << args, now, end_time, valid_metrics, grid, all_data, queries,
                    surface, callVars >>

\* "Parse datetime arguments": --to
ParseTo ==
    /\ pc = "parse_to"
    /\ IF Truthy(args.end_time)
       THEN ParsedTo(parse_datetime(Get(args.end_time), YearOf(now)))
       ELSE /\ pc' = "validate_range"
            /\ UNCHANGED << end_time, exit_code, output >>
    /\ UNCHANGED << args, now, start_time, valid_metrics, grid, all_data, queries,
                    surface, callVars >>

\* `if start_time and end_time and start_time >= end_time`
RangeRejected(st, et) == st # None /\ et # None /\ Get(st) >= Get(et)

\* "Validate time range"
ValidateRange ==
    /\ pc = "validate_range"
    /\ IF RangeRejected(start_time, end_time)
       THEN Exit(1, << [kind |-> "invalid_range", start |-> Get(start_time),
                        end |-> Get(end_time)] >>)
       ELSE pc' = "draw" /\ UNCHANGED << exit_code, output >>
    /\ UNCHANGED << args, now, start_time, end_time, valid_metrics, grid,
                    all_data, queries, surface, callVars >>

\* "Draw the chart(s)": draw_chart for one key, draw_multi_chart for several,
\* up to the first fetch; draw_multi_chart computes its grid first
BeginDraw ==
    /\ pc = "draw"
    /\ IF Len(valid_metrics) = 1
       THEN /\ grid' = None
            /\ output' = Append(output, [kind |-> "fetching", n |-> 1])
       ELSE /\ grid' = Some(calculate_grid(Len(valid_metrics), args.cols))
            /\ output' = Append(output, [kind |-> "fetching",
                                         n |-> Len(valid_metrics)])
    /\ pc' = "fetch"
    /\ UNCHANGED << args, now, start_time, end_time, valid_metrics, all_data,
                    queries, surface, exit_code, callVars >>

\* FetchReturns that draws the panel of a key as soon as its data is there
FetchReturnsIncremental ==
    /\ pc = "fetch"
    /\ Len(all_data) < Len(valid_metrics)
    /\ \E elapsed \in 0..MaxElapsed, result \in Responses :
         LET metric_name == valid_metrics[Len(all_data) + 1]
             metric_class == MetricClass(metric_name)
             clock == IF ReadsClock(start_time, end_time) THEN now + elapsed ELSE now
             window == ResolveWindow(start_time, end_time, args.minutes, clock)
             got == GetDataReturn(metric_class, window, result)
             entry == [metric |-> metric_name, x_labels |-> got.x_labels, y |-> got.y]
         IN  /\ ReadsClock(start_time, end_time) \/ elapsed = 0
             /\ now' = clock
             /\ queries' = Append(queries,
                    Issued(metric_class, start_time, end_time, window, FALSE,
                           result))
             /\ all_data' = Append(all_data, entry)
             /\ surface' =
                    IF Len(valid_metrics) = 1 THEN surface
                    ELSE surface \o PanelOps(Len(all_data), entry, Get(grid)[2])
             /\ output' =
                    IF Len(valid_metrics) = 1 THEN output
                    ELSE Append(output,
                           [kind |-> IF got.x_labels # None /\ got.y # None
                                     THEN "fetched" ELSE "no_data",
                            i |-> Len(all_data) + 1])
    /\ pc' = IF Len(all_data') = Len(valid_metrics) THEN "render" ELSE "fetch"
    /\ UNCHANGED << args, start_time, end_time, valid_metrics, grid,
                    exit_code, callVars >>

\* fetcher.get_data for the next key: the clock is read when end_time is not
\* given, the window and the step are resolved, the range query is issued and
\* the backend answers with a result
FetchReturns ==
    /\ pc = "fetch"
    /\ Len(all_data) < Len(valid_metrics)
    /\ \E elapsed \in 0..MaxElapsed, result \in Responses :
         LET metric_name == valid_metrics[Len(all_data) + 1]
             metric_class == MetricClass(metric_name)
             clock == IF ReadsClock(start_time, end_time) THEN now + elapsed ELSE now
             window == ResolveWindow(start_time, end_time, args.minutes, clock)
             got == GetDataReturn(metric_class, window, result)
         IN  /\ ReadsClock(start_time, end_time) \/ elapsed = 0
             /\ now' = clock
             /\ queries' = Append(queries,
                    Issued(metric_class, start_time, end_time, window, FALSE,
                           result))
             /\ all_data' = Append(all_data,
                    [metric |-> metric_name, x_labels |-> got.x_labels, y |-> got.y])
             /\ output' =
                    IF Len(valid_metrics) = 1 THEN output
                    ELSE Append(output,
                           [kind |-> IF got.x_labels # None /\ got.y # None
                                     THEN "fetched" ELSE "no_data",
                            i |-> Len(all_data) + 1])
    /\ pc' = IF Len(all_data') = Len(valid_metrics) THEN "render" ELSE "fetch"
    /\ UNCHANGED << args, start_time, end_time, valid_metrics, grid, surface,
                    exit_code, callVars >>

\* FetchRaises with the exception caught for each key: the key gets an entry
\* without data and the batch goes on
FetchRaisesIsolated ==
    /\ pc = "fetch"
    /\ Len(all_data) < Len(valid_metrics)
    /\ \E elapsed \in 0..MaxElapsed, e \in Exceptions :
         LET metric_name == valid_metrics[Len(all_data) + 1]
             metric_class == MetricClass(metric_name)
             clock == IF ReadsClock(start_time, end_time) THEN now + elapsed ELSE now
             window == ResolveWindow(start_time, end_time, args.minutes, clock)
         IN  /\ ReadsClock(start_time, end_time) \/ elapsed = 0
             /\ now' = clock
             /\ queries' = Append(queries,
                    Issued(metric_class, start_time, end_time, window, TRUE, e))
             /\ all_data' = Append(all_data,
                    [metric |-> metric_name, x_labels |-> None, y |-> None])
             /\ output' = Append(output,
                    [kind |-> "connection_error",
                     error |-> ConnectionErrorOf(args.prometheus_url, e)])
    /\ pc' = IF Len(all_data') = Len(valid_metrics) THEN "render" ELSE "fetch"
    /\ UNCHANGED << args, start_time, end_time, valid_metrics, grid, surface,
                    exit_code, callVars >>

\* FetchRaises with one retry: the failed range query is issued a second time
\* before the failure is reported
FetchRaisesRetried ==
    /\ pc = "fetch"
    /\ Len(all_data) < Len(valid_metrics)
    /\ \E elapsed \in 0..MaxElapsed, e \in Exceptions :
         LET metric_name == valid_metrics[Len(all_data) + 1]
             metric_class == MetricClass(metric_name)
             clock == IF ReadsClock(start_time, end_time) THEN now + elapsed ELSE now
             window == ResolveWindow(start_time, end_time, args.minutes, clock)
             failed == Issued(metric_class, start_time, end_time, window, TRUE, e)
         IN  /\ ReadsClock(start_time, end_time) \/ elapsed = 0
             /\ now' = clock
             /\ queries' = queries \o << failed, failed >>
             /\ Exit(1, << [kind |-> "connection_error",
                            error |-> ConnectionErrorOf(args.prometheus_url, e)] >>)
    /\ UNCHANGED << args, start_time, end_time, valid_metrics, grid, all_data,
                    surface, callVars >>

\* fetcher.get_data for the next key when the range query raises: get_data
\* raises PrometheusConnectionError, which only __main__ catches
FetchRaises ==
    /\ pc = "fetch"
    /\ Len(all_data) < Len(valid_metrics)
    /\ \E elapsed \in 0..MaxElapsed, e \in Exceptions :
         LET metric_name == valid_metrics[Len(all_data) + 1]
             metric_class == MetricClass(metric_name)
             clock == IF ReadsClock(start_time, end_time) THEN now + elapsed ELSE now
             window == ResolveWindow(start_time, end_time, args.minutes, clock)
         IN  /\ ReadsClock(start_time, end_time) \/ elapsed = 0
             /\ now' = clock
             /\ queries' = Append(queries,
                    Issued(metric_class, start_time, end_time, window, TRUE, e))
             /\ Exit(1, << [kind |-> "connection_error",
                            error |-> ConnectionErrorOf(args.prometheus_url, e)] >>)
    /\ UNCHANGED << args, start_time, end_time, valid_metrics, grid, all_data,
                    surface, callVars >>

\* the rest of draw_chart (one key) or of draw_multi_chart (several keys),
\* after which the script ends
Render ==
    /\ pc = "render"
    /\ IF Len(valid_metrics) = 1
       THEN IF all_data[1].x_labels = None \/ Get(all_data[1].x_labels) = << >>
            THEN /\ output' = Append(output, [kind |-> "no_data", i |-> 1])
                 /\ UNCHANGED surface
            ELSE /\ surface' = ChartOps(MetricClass(all_data[1].metric),
                                        Get(all_data[1].x_labels),
                                        Get(all_data[1].y), start_time, end_time)
                 /\ UNCHANGED output
       ELSE /\ surface' = MultiChartOps(all_data, Get(grid))
            /\ UNCHANGED output
    /\ pc' = "exit"
    /\ exit_code' = Some(0)
    /\ UNCHANGED << args, now, start_time, end_time, valid_metrics, grid,
                    all_data, queries, callVars >>

Next ==
    \/ HandleList
    \/ RequireMetrics
    \/ ValidateMetrics
    \/ ParseFrom
    \/ ParseTo
    \/ ValidateRange
    \/ BeginDraw
    \/ FetchReturns
    \/ FetchRaises
    \/ Render

Spec == Init /\ [][Next]_vars

\* ---- the command line run on more --from and --to texts ------------------
TextPaddedBogus == <<" ", " ", "b", "o", "g", "u", "s", " ">>

TextPaddedTime == <<" ", "0", "8", ":", "0", "5", " ">>

TextBlank == <<" ", " ", " ">>

TextHour25 == <<"2", "5", ":", "0", "0">>

TextFebruary30 == <<"0", "2", "-", "3", "0", " ", "0", "8", ":", "0", "0">>

TextFebruary29 == <<"0", "2", "-", "2", "9", " ", "0", "8", ":", "0", "0">>

TextDayMonth == <<"1", "3", "-", "1", "1", " ", "0", "8", ":", "0", "0">>

TextMonthName == <<"N", "o", "v", " ", "1", "3", " ", "0", "8", ":", "0", "0">>

TextIsoSeconds == <<"2", "0", "2", "4", "-", "1", "1", "-", "1", "3", "T", "0", "8", ":", "0",
    "0", ":", "3", "0">>

TextTrailing == <<"2", "0", "2", "4", "-", "1", "1", "-", "1", "3", " ", "0", "8", ":", "0",
    "0", " ", "u", "t", "c">>

TextDateOnly == <<"2", "0", "2", "4", "-", "1", "1", "-", "1", "3">>

TextYear1900 == <<"1", "9", "0", "0", "-", "1", "1", "-", "1", "3", " ", "0", "8", ":", "0", "0">>

TextNightBefore == <<"2", "0", "2", "4", "-", "1", "1", "-", "1", "2", " ", "2", "3", ":",
    "0", "0">>

TextNightAfter == <<"2", "0", "2", "4", "-", "1", "1", "-", "1", "3", " ", "0", "1", ":", "0",
    "0">>

\* texts for --from: some parse, some do not, some are padded with spaces or
\* empty
FromTexts ==
    { None, Some(<< >>), Some(TextEarly), Some(TextLate), Some(TextBogus),
      Some(TextPaddedBogus), Some(TextPaddedTime), Some(TextBlank),
      Some(TextHour25), Some(TextFebruary30), Some(TextFebruary29),
      Some(TextDayMonth), Some(TextMonthName), Some(TextIsoSeconds),
      Some(TextTrailing), Some(TextDateOnly), Some(TextYear1900),
      Some(TextNightBefore) }

ToTexts ==
    { None, Some(TextLate), Some(TextPaddedBogus), Some(TextHour25),
      Some(TextDateOnly), Some(TextNightAfter) }

\* one key of the catalog, the default --minutes, every text of the two sets
ArgSpaceTexts ==
    [listing : { "" },
     metrics : { << KeyClusterCpu >> },
     prometheus_url : { DEFAULT_PROMETHEUS_URL },
     start_time : FromTexts,
     end_time : ToTexts,
     minutes : { 60 },
     cols : { None }]

InitTexts ==
    /\ args \in ArgSpaceTexts
    /\ now = NowStart
    /\ pc = "list_check"
    /\ start_time = None
    /\ end_time = None
    /\ valid_metrics = << >>
    /\ grid = None
    /\ all_data = << >>
    /\ queries = << >>
    /\ surface = << >>
    /\ output = << >>
    /\ exit_code = None
    /\ call = NoCall
    /\ ret = None

SpecTexts == InitTexts /\ [][Next]_vars

(***************************************************************************)
(* Calls of the pure functions.  The command line run stays idle.          *)
(***************************************************************************)
IdleCli ==
    /\ args = [listing |-> "", metrics |-> << >>,
               prometheus_url |-> DEFAULT_PROMETHEUS_URL,
               start_time |-> None, end_time |-> None, minutes |-> 60,
               cols |-> None]
    /\ now = NowStart
    /\ pc = "idle"
    /\ start_time = None
    /\ end_time = None
    /\ valid_metrics = << >>
    /\ grid = None
    /\ all_data = << >>
    /\ queries = << >>
    /\ surface = << >>
    /\ output = << >>
    /\ exit_code = None

\* ---- parse_datetime -----------------------------------------------------
\* the dates and times of day the texts are built from
ParseYears == { 1900, 1999, 2024 }

ParseMonths == { 1, 2, 11, 12 }

ParseDays == { 1, 13, 29 }

ParseHours == { 0, 8, 23 }

ParseMinutes == { 0, 5, 59 }

\* the datetimes of the calendar among them, at minute precision
Instants ==
    { dt \in { MkDateTime(y, mo, d, h, mi, 0) :
                 y \in ParseYears, mo \in ParseMonths, d \in ParseDays,
                 h \in ParseHours, mi \in ParseMinutes } :
        dt.day <= DaysInMonth(dt.year, dt.month) }

\* the days on which parse_datetime is called
Todays ==
    { MkDateTime(2024, 11, 13, 9, 0, 0), MkDateTime(2024, 1, 1, 9, 0, 0),
      MkDateTime(2025, 2, 28, 9, 0, 0) }

\* "HH:MM" and "HH:MM:SS"
FormatTime(h, mi) == Pad2(h) \o <<":">> \o Pad2(mi)

FormatTimeSeconds(h, mi, sec) == FormatTime(h, mi) \o <<":">> \o Pad2(sec)

\* the two numbers of a year-less numeric text "NN-NN HH:MM"
NumericParts == { 1, 2, 5, 12, 13, 29, 31 }

\* "NN-NN HH:MM"
FormatNumeric(a, b, h, mi) ==
    Pad2(a) \o <<"-">> \o Pad2(b) \o <<" ">> \o FormatTime(h, mi)

\* a call parse_datetime(dt_string) made on the day `today`; `of` is the
\* datetime the text was written from
ParseCalls ==
    { [fn |-> "parse_datetime", kind |-> "numeric",
       dt_string |-> FormatNumeric(a, b, 8, 5), first |-> a, second |-> b,
       today |-> t] :
         a \in NumericParts, b \in NumericParts, t \in Todays }
    \cup
    { [fn |-> "parse_datetime", kind |-> "canonical",
       dt_string |-> FormatCanonical(dt), of |-> dt, today |-> t] :
         dt \in Instants, t \in Todays }
    \cup
    { [fn |-> "parse_datetime", kind |-> "bare_time",
       dt_string |-> FormatTime(h, mi),
       of |-> MkDateTime(t.year, t.month, t.day, h, mi, 0), today |-> t] :
         h \in ParseHours, mi \in ParseMinutes, t \in Todays }
    \cup
    { [fn |-> "parse_datetime", kind |-> "bare_time",
       dt_string |-> FormatTimeSeconds(h, mi, 30),
       of |-> MkDateTime(t.year, t.month, t.day, h, mi, 30), today |-> t] :
         h \in ParseHours, mi \in ParseMinutes, t \in Todays }

InitParse ==
    /\ IdleCli
    /\ call \in ParseCalls
    /\ ret = None

\* parse_datetime(dt_string): default_year is datetime.now().year
CallParseDatetime ==
    /\ call.fn = "parse_datetime"
    /\ ret = None
    /\ ret' = Some(parse_datetime(call.dt_string, call.today.year))
    /\ UNCHANGED << call, cliVars >>

SpecParse == InitParse /\ [][CallParseDatetime]_vars

\* ---- calculate_step -----------------------------------------------------
\* the window lengths lie within StepDelta seconds of a threshold of the table
StepDelta == 2

\* the thresholds of calculate_step, in minutes
StepThresholds == { 0, 60, 180, 720, 1440, 4320, 10080 }

WindowLengths ==
    { t * 60 + d : t \in StepThresholds, d \in (-StepDelta)..StepDelta }
    \cup { 11000 * 60 }

\* two calls calculate_step(start, start + length)
StepCalls ==
    { [fn |-> "calculate_step", start |-> st, length1 |-> l1, length2 |-> l2] :
        st \in { NowStart }, l1 \in WindowLengths, l2 \in WindowLengths }

InitStep ==
    /\ IdleCli
    /\ call \in StepCalls
    /\ ret = None

CallCalculateStep ==
    /\ call.fn = "calculate_step"
    /\ ret = None
    /\ ret' = Some(<< calculate_step(call.start, call.start + call.length1),
                      calculate_step(call.start, call.start + call.length2) >>)
    /\ UNCHANGED << call, cliVars >>

SpecStep == InitStep /\ [][CallCalculateStep]_vars

\* ---- calculate_grid -----------------------------------------------------
\* most charts, and largest column count (of either sign) of a call
MaxCharts == 18

MaxCols == 5

GridCalls ==
    { [fn |-> "calculate_grid", num_charts |-> n, cols |-> c] :
        n \in 1..MaxCharts,
        c \in { None } \cup { Some(k) : k \in (-MaxCols)..MaxCols } }

InitGrid ==
    /\ IdleCli
    /\ call \in GridCalls
    /\ ret = None

CallCalculateGrid ==
    /\ call.fn = "calculate_grid"
    /\ ret = None
    /\ ret' = Some(calculate_grid(call.num_charts, call.cols))
    /\ UNCHANGED << call, cliVars >>

SpecGrid == InitGrid /\ [][CallCalculateGrid]_vars

\* ---- the x-axis labels of draw_chart and draw_multi_chart ---------------
\* longest series of a call
MaxSeriesLen == 100

\* the label caps of draw_chart and of a panel of draw_multi_chart
LabelCaps == { 10, 5 }

LabelCalls ==
    { [fn |-> "label_indices", len |-> n, cap |-> c] :
        n \in 1..MaxSeriesLen, c \in LabelCaps }

InitLabels ==
    /\ IdleCli
    /\ call \in LabelCalls
    /\ ret = None

\* "Set custom x-axis labels": label_indices for x_labels of length len
SelectLabels ==
    /\ call.fn = "label_indices"
    /\ ret = None
    /\ ret' = Some(LabelIndices(call.len, call.cap))
    /\ UNCHANGED << call, cliVars >>

SpecLabels == InitLabels /\ [][SelectLabels]_vars

\* ---- the grid of draw_multi_chart ---------------------------------------
\* draw_multi_chart for n keys whose fetches returned no data, with a column
\* override: between 2 and MaxCharts keys, columns as for calculate_grid
GridDraws ==
    { [fn |-> "draw_multi_chart", num_metrics |-> n, cols |-> c] :
        n \in 2..MaxCharts,
        c \in { None } \cup { Some(k) : k \in (-MaxCols)..MaxCols } }

InitPanels ==
    /\ IdleCli
    /\ call \in GridDraws
    /\ ret = None

\* the calls on the surface of draw_multi_chart: the grid, then the panels
DrawPanels ==
    /\ call.fn = "draw_multi_chart"
    /\ ret = None
    /\ ret' = Some(MultiChartOps(
                  [i \in 1..call.num_metrics |->
                      [metric |-> KeyClusterCpu, x_labels |-> None, y |-> None]],
                  calculate_grid(call.num_metrics, call.cols)))
    /\ UNCHANGED << call, cliVars >>

SpecPanels == InitPanels /\ [][DrawPanels]_vars

(***************************************************************************)
(* Properties                                                              *)
(***************************************************************************)
\* what the command line asks for, read off the arguments alone
IsListing == args.listing # ""

NoKeysGiven == args.metrics = << >>

HasUnknownKey == \E k \in 1..Len(args.metrics) : ~InCatalog(args.metrics[k])

Unparseable(opt_text) ==
    Truthy(opt_text) /\ IsValueError(parse_datetime(Get(opt_text), YearOf(NowStart)))

\* both --from and --to are given and parse
BothGiven == start_time # None /\ end_time # None

\* C1: Window invariant: no range query is ever issued to the backend with a
\* resolved window whose start is not before its end, whatever --from, --to,
\* --minutes (0 and negative included) and the clock are.
C1_NoQueryWithStartNotBeforeEnd ==
    \A i \in 1..Len(queries) : queries[i].call.start < queries[i].call.end

\* the step of the table of the specification for a window of `seconds`
\* seconds: the first row whose bound (in minutes) the length does not exceed
TableStep(seconds) ==
    CASE seconds <= 60 * 60 -> "30s"
      [] seconds > 60 * 60 /\ seconds <= 180 * 60 -> "1m"
      [] seconds > 180 * 60 /\ seconds <= 720 * 60 -> "2m"
      [] seconds > 720 * 60 /\ seconds <= 1440 * 60 -> "5m"
      [] seconds > 1440 * 60 /\ seconds <= 4320 * 60 -> "15m"
      [] seconds > 4320 * 60 /\ seconds <= 10080 * 60 -> "30m"
      [] seconds > 10080 * 60 -> "1h"

InvalidRange ==
    \/ (BothGiven /\ Get(start_time) >= Get(end_time))
    \/ \E i \in 1..Len(queries) : queries[i].call.start >= queries[i].call.end

ConnectionFailed == \E i \in 1..Len(queries) : queries[i].raised

\* the exit code the specification gives a run that has ended
ClaimedExitCode ==
    IF IsListing THEN 0
    ELSE IF \/ NoKeysGiven
            \/ HasUnknownKey
            \/ Unparseable(args.start_time)
            \/ Unparseable(args.end_time)
            \/ InvalidRange
            \/ ConnectionFailed
         THEN 1
         ELSE 0

\* C3: Exit codes: 0 for a listing request and when all fetches complete
\* without a connection failure; 1 for no metric key, an unknown key, an
\* unparseable --from or --to, an invalid range (start >= end) and a backend
\* connection failure; no other exit code.
C3_ExitCodes ==
    pc = "exit" => exit_code = Some(ClaimedExitCode)

\* C4: Unknown metric rejection: when at least one requested key is not in
\* the catalog, the run (one that asks for charts, not for a listing) reports
\* exactly the keys that are not in the catalog, each with at most 3
\* substring-match suggestions, exits with code 1 and performs no network call.
C4_UnknownMetricRejection ==
    (~IsListing /\ HasUnknownKey) =>
        /\ queries = << >>
        /\ pc \notin { "parse_from", "parse_to", "validate_range", "draw",
                       "fetch", "render" }
        /\ pc = "exit" =>
              /\ exit_code = Some(1)
              /\ [k \in 1..Len(output) |-> output[k].name]
                    = Filter(args.metrics, NotInCatalog)
              /\ \A k \in 1..Len(output) :
                    /\ output[k].kind = "unknown_metric"
                    /\ Len(output[k].suggestions) <= 3
                    /\ \A j \in 1..Len(output[k].suggestions) :
                          /\ InCatalog(output[k].suggestions[j])
                          /\ IsSubstring(LowerText(output[k].name),
                                         LowerText(output[k].suggestions[j]))

\* a run with a valid key, an unknown key that has more than 3 matches and an
\* unknown key that has none has ended
C4_Witness ==
    /\ pc = "exit"
    /\ ~IsListing
    /\ Len(args.metrics) = 2
    /\ args.metrics[1] = KeyClusterCpu
    /\ args.metrics[2] = KeyEtcd
    /\ Len(output) = 1
    /\ Len(output[1].suggestions) = 3

\* the run ended on invalid command line input that __main__ rejects
RejectedInput ==
    /\ pc = "exit"
    /\ ~IsListing
    /\ \/ NoKeysGiven
       \/ HasUnknownKey
       \/ Unparseable(args.start_time)
       \/ Unparseable(args.end_time)
       \/ (BothGiven /\ Get(start_time) >= Get(end_time))

\* C5: Every run that ends because of invalid command line input (no key,
\* an unknown key, an unparseable --from/--to, a range whose resolved start
\* is not before its end) ends before any network call; in particular a
\* --from after the clock with --to omitted never reaches the backend.
C5_InvalidInputBeforeNetwork ==
    /\ RejectedInput => queries = << >>
    /\ (start_time # None /\ ~Truthy(args.end_time) /\ Get(start_time) > now)
          => queries = << >>

\* C6: Step selection follows the ordered table on the window length in
\* minutes (fractions included), first match wins; each boundary maps to the
\* finer step and a length just above it to the next coarser step.
C6_StepTable ==
    (call.fn = "calculate_step" /\ ret # None) =>
        /\ Get(ret)[1] = TableStep(call.length1)
        /\ Get(ret)[2] = TableStep(call.length2)

\* a boundary and the length one second above it have been given their steps
C6_Witness ==
    /\ call.fn = "calculate_step"
    /\ ret # None
    /\ call.length1 = 720 * 60
    /\ call.length2 = 720 * 60 + 1
    /\ Get(ret) = << "2m", "5m" >>

\* the seven step values, in seconds
StepSeconds(step) ==
    CASE step = "30s" -> 30 [] step = "1m" -> 60 [] step = "2m" -> 120
      [] step = "5m" -> 300 [] step = "15m" -> 900 [] step = "30m" -> 1800
      [] step = "1h" -> 3600

SevenSteps == { "30s", "1m", "2m", "5m", "15m", "30m", "1h" }

\* C7: Step selection returns one of the seven fixed step values and is
\* monotonic: of two windows the longer never gets the finer step.
C7_StepMonotonic ==
    (call.fn = "calculate_step" /\ ret # None) =>
        /\ Get(ret)[1] \in SevenSteps
        /\ Get(ret)[2] \in SevenSteps
        /\ call.length1 <= call.length2
              => StepSeconds(Get(ret)[1]) <= StepSeconds(Get(ret)[2])

\* two windows of different steps have been compared
C7_Witness ==
    /\ call.fn = "calculate_step"
    /\ ret # None
    /\ call.length1 < call.length2
    /\ Get(ret) = << "5m", "1h" >>

\* C8: Bare time defaults to today: parsing "HH:MM" or "HH:MM:SS" yields
\* today's year, month and day with the hour, minute and second given.
C8_BareTimeIsToday ==
    (call.fn = "parse_datetime" /\ call.kind = "bare_time" /\ ret # None) =>
        Get(ret) = call.of

\* C9: Canonical round trip: parsing the "%Y-%m-%d %H:%M" form of an instant
\* of minute precision returns that instant, for every year (1900 included)
\* and whatever the current year is.
C9_CanonicalRoundTrip ==
    (call.fn = "parse_datetime" /\ call.kind = "canonical" /\ ret # None) =>
        Get(ret) = call.of

\* C10: GridLayout invariant: for every panel count n >= 1 and every column
\* override (any integer, or none), calculate_grid returns (rows, cols) with
\* rows * cols >= n.
C10_GridHoldsAllPanels ==
    (call.fn = "calculate_grid" /\ ret # None) =>
        Get(ret)[1] * Get(ret)[2] >= call.num_charts

\* the least integer not below n / c, for c # 0
CeilingOfQuotient(n, c) ==
    CHOOSE r \in (-n)..n :
        IF c > 0 THEN (r - 1) * c < n /\ n <= r * c
        ELSE (r - 1) * c > n /\ n >= r * c

\* the fixed lookup of the grid for n <= 12 charts
GridLookup(n) ==
    CASE n = 1 -> << 1, 1 >>
      [] n = 2 -> << 1, 2 >>
      [] n \in 3..4 -> << 2, 2 >>
      [] n \in 5..6 -> << 2, 3 >>
      [] n \in 7..9 -> << 3, 3 >>
      [] n \in 10..12 -> << 3, 4 >>

\* C11 as stated: Grid sizing: with a column count supplied calculate_grid
\* returns (ceil(n / cols), cols); otherwise the fixed lookup up to 12 charts
\* and, for every n > 12, (4, ceil(n / 4)): 4 rows and ceil(n / 4) columns.
C11_GridSizingAsStated ==
    (call.fn = "calculate_grid" /\ ret # None) =>
        IF call.cols # None
        THEN /\ Get(ret)[2] = Get(call.cols)
             /\ Get(call.cols) # 0
                   => Get(ret)[1] = CeilingOfQuotient(call.num_charts, Get(call.cols))
        ELSE IF call.num_charts <= 12
             THEN Get(ret) = GridLookup(call.num_charts)
             ELSE Get(ret) = << 4, CeilingOfQuotient(call.num_charts, 4) >>

\* C11: Grid sizing: with a column count other than 0 supplied calculate_grid
\* returns (ceil(n / cols), cols); with none, or 0, it returns the fixed
\* lookup up to 12 charts and, for every n > 12, (ceil(n / 4), 4):
\* ceil(n / 4) rows and 4 columns.
C11_GridSizing ==
    (call.fn = "calculate_grid" /\ ret # None) =>
        IF call.cols # None /\ Get(call.cols) # 0
        THEN Get(ret) = << CeilingOfQuotient(call.num_charts, Get(call.cols)),
                           Get(call.cols) >>
        ELSE IF call.num_charts <= 12
             THEN Get(ret) = GridLookup(call.num_charts)
             ELSE Get(ret) = << CeilingOfQuotient(call.num_charts, 4), 4 >>

\* the grid of 17 charts without a column count is 5 rows of 4 columns
C11_Witness ==
    /\ call.fn = "calculate_grid"
    /\ ret # None
    /\ call.num_charts = 17
    /\ call.cols = None
    /\ Get(ret) = << 5, 4 >>

\* C12: Label down-sampling never exceeds the cap: for every non-empty
\* series the number of x-axis labels shown is at most 10 for a single chart
\* and at most 5 for a grid panel; for a series of length 97 under the cap of
\* 10 the indices are 0, 9, 18, ..., 90 and number 10.
C12_LabelCap ==
    (call.fn = "label_indices" /\ ret # None) =>
        /\ Len(Get(ret)) <= call.cap
        /\ (call.len = 97 /\ call.cap = 10) =>
              Get(ret) = [k \in 1..10 |-> 9 * (k - 1)]

\* the run draws a grid: more than one key, all of the catalog
MultiMode == Len(valid_metrics) > 1

\* the run went through its rendering step
Rendered == pc = "exit" /\ Len(all_data) = Len(valid_metrics) /\ valid_metrics # << >>

\* the backend answered query i with zero series
EmptyAnswer(i) == ~queries[i].raised /\ queries[i].answer = << >>

\* the backend answered query i with at least one series
DataAnswer(i) == ~queries[i].raised /\ queries[i].answer # << >>

\* the indices in s, in order, of the calls of `op`
RECURSIVE CallsOf(_, _, _)
CallsOf(s, op, k) ==
    IF k > Len(s) THEN << >>
    ELSE (IF s[k].op = op THEN << k >> ELSE << >>) \o CallsOf(s, op, k + 1)

\* the calls on the surface of panel i (from 1): from its subplot call up to
\* the next subplot call or the final show
PanelCalls(i) ==
    LET starts == CallsOf(surface, "subplot", 1)
        last == IF i < Len(starts) THEN starts[i + 1] - 1 ELSE Len(surface) - 1
    IN  SubSeq(surface, starts[i], last)

\* row and column (from 1) of panel i (from 0) in a grid filled row by row of
\* `cols` columns: i = (row - 1) * cols + (col - 1), the remainder col - 1
\* lying between 0 and cols
GridPosition(i, cols) ==
    CHOOSE p \in ((-i - 1)..(i + 1))
                    \X ((IF cols < 0 THEN cols + 1 ELSE 1)..(IF cols < 0 THEN 1 ELSE cols)) :
        /\ i = (p[1] - 1) * cols + (p[2] - 1)
        /\ IF cols > 0 THEN 0 <= p[2] - 1 /\ p[2] - 1 < cols
           ELSE cols < p[2] - 1 /\ p[2] - 1 <= 0

\* the values plotted for the first series of a backend result
PlottedValues(metric_name, result) ==
    [k \in 1..Len(result[1].values) |->
        IF MetricClass(metric_name).has_transform
        THEN result[1].values[k][2] \div GB
        ELSE result[1].values[k][2]]

\* C13: Empty series is not an error: a backend response with zero series
\* makes the fetch return the no-data result without raising; in multi-metric
\* mode the panel of that metric is still drawn, as a placeholder at its grid
\* position, every other panel is rendered normally, and the run does not
\* abort (it ends with exit code 0 unless a later fetch fails to connect).
C13_EmptySeriesIsNotAnError ==
    /\ \A i \in 1..Len(queries) :
          EmptyAnswer(i) =>
              /\ i <= Len(all_data)
              /\ all_data[i].x_labels = None
              /\ all_data[i].y = None
              /\ (pc = "exit" /\ exit_code = Some(1)) => queries[Len(queries)].raised
    /\ (Rendered /\ MultiMode) =>
          /\ exit_code = Some(0)
          /\ Len(CallsOf(surface, "subplot", 1)) = Len(valid_metrics)
          /\ \A i \in 1..Len(valid_metrics) :
                LET panel == PanelCalls(i)
                    at == GridPosition(i - 1, Get(grid)[2])
                IN  /\ panel[1].row = at[1]
                    /\ panel[1].col = at[2]
                    /\ panel[2].op = "plot"
                    /\ EmptyAnswer(i) => panel[2].n = 1 /\ panel[2].y = << 0 >>
                    /\ DataAnswer(i) =>
                          panel[2].y = PlottedValues(valid_metrics[i], queries[i].answer)

\* a grid was drawn whose first panel had no data and whose second had
C13_Witness ==
    /\ Rendered
    /\ MultiMode
    /\ EmptyAnswer(1)
    /\ DataAnswer(2)
    /\ exit_code = Some(0)
    /\ PanelCalls(1)[2].y = << 0 >>
    /\ PanelCalls(2)[2].n = 2

\* C14: Fail-fast batch: in multi-metric mode, if the fetch of the k-th
\* metric fails with a connection failure the whole batch is aborted: exactly
\* k range queries have been issued (those of metrics k+1..n never are),
\* nothing is drawn on the surface, and the run exits with code 1.
C14_FailFastBatch ==
    MultiMode =>
        \A k \in 1..Len(queries) :
            queries[k].raised =>
                /\ Len(queries) = k
                /\ Len(all_data) = k - 1
                /\ \A j \in 1..(k - 1) : ~queries[j].raised
                /\ surface = << >>
                /\ pc = "exit"
                /\ exit_code = Some(1)

\* the first fetch of a batch of two failed and the run has ended
C14_Witness ==
    /\ MultiMode
    /\ Len(valid_metrics) = 2
    /\ Len(queries) = 1
    /\ queries[1].raised
    /\ queries[1].answer.class = "NewConnectionError"
    /\ surface = << >>
    /\ exit_code = Some(1)

\* C15: Per-panel failure isolation: when the fetch of one panel fails to
\* connect, the renderer draws a placeholder panel for it and the render
\* proceeds for all other panels: the run is not aborted and the grid is
\* fully populated for the requested panel count.
C15_PerPanelIsolation ==
    (MultiMode /\ pc = "exit" /\ ConnectionFailed) =>
        /\ Len(queries) = Len(valid_metrics)
        /\ Len(CallsOf(surface, "subplot", 1)) = Len(valid_metrics)
        /\ \A i \in 1..Len(valid_metrics) :
              /\ PanelCalls(i)[2].op = "plot"
              /\ queries[i].raised =>
                    PanelCalls(i)[2].n = 1 /\ PanelCalls(i)[2].y = << 0 >>

\* the titles set in the calls of one panel
TitlesOf(panel) ==
    LET at == CallsOf(panel, "title", 1)
    IN  [k \in 1..Len(at) |-> panel[at[k]].title]

\* C16: Output panel order equals input metric order: the fetches are issued
\* one at a time in the order of the keys on the command line, and panel i
\* shows the data and the title of the i-th key given, also when keys are
\* repeated or fetches return no data.
C16_PanelOrderIsRequestOrder ==
    /\ Len(queries) <= Len(args.metrics)
    /\ \A i \in 1..Len(queries) : queries[i].call.query = args.metrics[i]
    /\ \A i \in 1..Len(all_data) : all_data[i].metric = args.metrics[i]
    /\ (Rendered /\ MultiMode) =>
          /\ Len(CallsOf(surface, "subplot", 1)) = Len(args.metrics)
          /\ \A i \in 1..Len(args.metrics) :
                LET panel == PanelCalls(i)
                IN  /\ TitlesOf(panel) = << MetricClass(args.metrics[i]).title >>
                    /\ EmptyAnswer(i) => panel[2].y = << 0 >>
                    /\ DataAnswer(i) =>
                          panel[2].y
                              = PlottedValues(args.metrics[i], queries[i].answer)

\* a grid of the same key twice was drawn, the first panel with two samples
\* and the second without data
C16_Witness ==
    /\ Rendered
    /\ MultiMode
    /\ args.metrics = << KeyEtcdMemory, KeyEtcdMemory >>
    /\ queries[1].answer = << SeriesA >>
    /\ EmptyAnswer(2)
    /\ PanelCalls(1)[2].y = << 1, 0 >>
    /\ PanelCalls(2)[2].y = << 0 >>

\* C17: No incremental render: in multi-metric mode no call on the rendering
\* surface (clear, subplots, subplot, plot, show) happens before the fetch of
\* the last metric of the batch has completed.
C17_NoIncrementalRender ==
    (MultiMode /\ surface # << >>) =>
        /\ Len(queries) = Len(valid_metrics)
        /\ Len(all_data) = Len(valid_metrics)
        /\ \A i \in 1..Len(queries) : ~queries[i].raised

\* a grid of two panels is on the surface, after two fetches
C17_Witness ==
    /\ MultiMode
    /\ Len(queries) = 2
    /\ surface # << >>
    /\ surface[1].op = "clear_figure"
    /\ surface[Len(surface)].op = "show"

\* C18: Listing is terminal: with --list or a --list-* flag the run prints
\* the listing and exits with code 0 without validating metric keys, parsing
\* datetimes or issuing a network call, whatever the other arguments are
\* (unknown keys and unparseable datetimes included).
C18_ListingIsTerminal ==
    IsListing =>
        /\ pc \in { "list_check", "exit" }
        /\ valid_metrics = << >>
        /\ start_time = None
        /\ end_time = None
        /\ queries = << >>
        /\ surface = << >>
        /\ pc = "exit" =>
              /\ exit_code = Some(0)
              /\ output = << [kind |-> "listing", flag |-> args.listing] >>

\* a --list-etcd run with an unknown key and an unparseable --from has ended
C18_Witness ==
    /\ pc = "exit"
    /\ args.listing = "list_etcd"
    /\ args.metrics = << KeyBogus >>
    /\ args.start_time = Some(TextBogus)
    /\ exit_code = Some(0)
    /\ Len(output) = 1

\* no format of the list parses the text
NoFormatMatches(text) ==
    \A k \in 1..Len(formats) : strptime(text, formats[k]) = ValueError

\* the lines the run printed about --from or --to (kind "invalid_from" or
\* "invalid_to")
Printed(kind) ==
    { k \in 1..Len(output) : output[k].kind = kind }

\* what the run shows of one datetime argument once it is past parsing it:
\* the argument is not given (or empty) and nothing is parsed; or a format
\* matches its stripped text and a datetime is stored; or no format matches,
\* the error with the stripped text and the examples is printed and the run
\* has ended with exit code 1
ParseOutcome(opt_text, stored, kind) ==
    IF ~Truthy(opt_text)
    THEN stored = None /\ Printed(kind) = { }
    ELSE IF NoFormatMatches(Strip(Get(opt_text)))
         THEN /\ stored = None
              /\ pc = "exit"
              /\ exit_code = Some(1)
              /\ Printed(kind) = { Len(output) }
              /\ output[Len(output)].error.text = Strip(Get(opt_text))
              /\ Len(output[Len(output)].error.examples) = 4
              /\ queries = << >>
         ELSE stored # None /\ Printed(kind) = { }

FirstMatch(text) ==
    CHOOSE k \in 1..Len(formats) :
        /\ strptime(text, formats[k]) # ValueError
        /\ \A j \in 1..(k - 1) : strptime(text, formats[j]) = ValueError

\* the format has a year field
HasYearField(fmt) == \E k \in 1..Len(fmt) : fmt[k] = "%Y"

\* C20: Year defaulting: the year of the parsed result is overwritten with
\* default_year exactly when the matched format has no year field; when it
\* has one the year of the text is kept, whatever the year; month, day and
\* time are never altered by the overwrite.
C20_YearDefaulting ==
    (call.fn = "parse_datetime" /\ ret # None /\ ~IsValueError(Get(ret))) =>
        LET text == Strip(call.dt_string)
            fmt == formats[FirstMatch(text)]
            parsed == strptime(text, fmt)
        IN  IF HasYearField(fmt)
            THEN Get(ret) = parsed
            ELSE Get(ret) = [parsed EXCEPT !.year = call.today.year]

\* month mo and day d name a day of the year 1900, the year strptime gives a
\* text without a year
IsDayOf1900(mo, d) == mo \in 1..12 /\ d \in 1..DaysInMonth(1900, mo)

\* C21: Format priority: parse_datetime tries the formats in the order of the
\* list and returns the result of the first that matches; a year-less numeric
\* text "NN-NN HH:MM" that reads both as month-day and as day-month is read
\* as month-day, and as day-month only when the month-day reading is no date.
C21_FormatPriority ==
    (call.fn = "parse_datetime" /\ ret # None) =>
        /\ ~IsValueError(Get(ret)) =>
              LET parsed == strptime(Strip(call.dt_string),
                                     formats[FirstMatch(Strip(call.dt_string))])
              IN  /\ Get(ret).month = parsed.month
                  /\ Get(ret).day = parsed.day
                  /\ Get(ret).hour = parsed.hour
                  /\ Get(ret).minute = parsed.minute
                  /\ Get(ret).second = parsed.second
        /\ call.kind = "numeric" =>
              IF IsDayOf1900(call.first, call.second)
              THEN Get(ret) = MkDateTime(call.today.year, call.first,
                                         call.second, 8, 5, 0)
              ELSE IF IsDayOf1900(call.second, call.first)
                   THEN Get(ret) = MkDateTime(call.today.year, call.second,
                                              call.first, 8, 5, 0)
                   ELSE IsValueError(Get(ret))

\* "05-12 08:05", which reads both as May 12 and as December 5, was read as
\* May 12
C21_Witness ==
    /\ call.fn = "parse_datetime"
    /\ call.kind = "numeric"
    /\ ret # None
    /\ call.first = 5
    /\ call.second = 12
    /\ Get(ret).month = 5
    /\ Get(ret).day = 12

\* the subplot calls, in order, among the calls `ops` made on the surface
SubplotsOf(ops) ==
    [k \in 1..Len(CallsOf(ops, "subplot", 1)) |-> ops[CallsOf(ops, "subplot", 1)[k]]]

\* the subplots(rows, cols) call among them
DeclaredGrid(ops) == ops[CallsOf(ops, "subplots", 1)[1]]

\* C22: Panel placement is row-major: in multi-metric mode panel i (from 0)
\* is drawn at row (i div cols) + 1 and column (i mod cols) + 1, cols being
\* the column count calculate_grid returned for the batch (div and mod as
\* Python's // and %).
C22_RowMajorPlacement ==
    (call.fn = "draw_multi_chart" /\ ret # None) =>
        /\ DeclaredGrid(Get(ret)).cols
              = calculate_grid(call.num_metrics, call.cols)[2]
        /\ Len(SubplotsOf(Get(ret))) = call.num_metrics
        /\ \A i \in 0..(call.num_metrics - 1) :
              LET at == GridPosition(i, DeclaredGrid(Get(ret)).cols)
              IN  /\ SubplotsOf(Get(ret))[i + 1].row = at[1]
                  /\ SubplotsOf(Get(ret))[i + 1].col = at[2]

\* seven panels in the grid of three columns: the last stands in row 3,
\* column 1
C22_Witness ==
    /\ call.fn = "draw_multi_chart"
    /\ ret # None
    /\ call.num_metrics = 7
    /\ call.cols = None
    /\ DeclaredGrid(Get(ret)).cols = 3
    /\ SubplotsOf(Get(ret))[7].row = 3
    /\ SubplotsOf(Get(ret))[7].col = 1

\* C23: Placement stays inside the declared grid: for every panel count
\* n >= 2 and every column override (none or any integer) every panel is
\* placed at a cell with 1 <= row <= rows and 1 <= col <= cols of the grid
\* declared by subplots(rows, cols), and no two panels share a cell.
C23_PlacementInsideGrid ==
    (call.fn = "draw_multi_chart" /\ ret # None) =>
        LET cells == SubplotsOf(Get(ret))
            declared == DeclaredGrid(Get(ret))
        IN  /\ \A i \in 1..Len(cells) :
                  /\ 1 <= cells[i].row /\ cells[i].row <= declared.rows
                  /\ 1 <= cells[i].col /\ cells[i].col <= declared.cols
            /\ \A i, j \in 1..Len(cells) :
                  (cells[i].row = cells[j].row /\ cells[i].col = cells[j].col)
                      => i = j

\* C24: Down-sampled tick indices are well-formed: for every series length
\* >= 1 and both caps the stride is >= 1, the indices start at 0, increase
\* strictly by the stride, all lie in 0..len-1 and go on as far as len
\* allows; when the length does not exceed the cap every index is labelled.
C24_TickIndicesWellFormed ==
    (call.fn = "label_indices" /\ ret # None) =>
        LET idx == Get(ret)
        IN  /\ idx # << >>
            /\ idx[1] = 0
            /\ \A k \in 1..(Len(idx) - 1) : idx[k] < idx[k + 1]
            /\ \A k \in 1..Len(idx) : idx[k] \in 0..(call.len - 1)
            /\ call.len <= call.cap => idx = [k \in 1..call.len |-> k - 1]
            /\ call.len > call.cap =>
                  \E stride \in 1..call.len :
                      /\ \A k \in 1..Len(idx) : idx[k] = (k - 1) * stride
                      /\ Len(idx) * stride >= call.len

\* 23 samples under the cap of 5: stride 4, indices 0, 4, ..., 20
C24_Witness ==
    /\ call.fn = "label_indices"
    /\ ret # None
    /\ call.len = 23
    /\ call.cap = 5
    /\ Get(ret) = << 0, 4, 8, 12, 16, 20 >>

\* C25: One network call per fetch, no retries: each call of get_data issues
\* exactly one range query; when that query fails the failure is surfaced at
\* once (the run reports it and ends) and no second query is issued for that
\* metric.
C25_OneQueryPerFetch ==
    /\ Len(queries) <= Len(valid_metrics)
    /\ \A i \in 1..Len(queries) :
          /\ queries[i].call.query = valid_metrics[i]
          /\ queries[i].raised =>
                /\ i = Len(queries)
                /\ Len(all_data) = i - 1
                /\ pc = "exit"
                /\ exit_code = Some(1)
                /\ output[Len(output)].kind = "connection_error"
    /\ ~ConnectionFailed => Len(queries) = Len(all_data)

\* the only fetch of a run with one key failed: one query, and the run ended
C25_Witness ==
    /\ Len(valid_metrics) = 1
    /\ Len(queries) = 1
    /\ queries[1].raised
    /\ pc = "exit"
    /\ exit_code = Some(1)

\* the report of the connection failure the run ended on
FailureReport == output[Len(output)]

\* the exception the last query raised
FailureCause == queries[Len(queries)].answer

\* C26 as stated: Uniform connection-failure reporting: every transport
\* failure of the range query (connection error, new-connection error,
\* exhausted retries, generic request failure) is surfaced as the one kind
\* PrometheusConnectionError, and for each of them the message names the
\* backend URL and has the same four-item checklist (URL, server,
\* network/DNS, firewall).
C26_UniformReportAsStated ==
    ConnectionFailed =>
        /\ FailureReport.kind = "connection_error"
        /\ FailureReport.error.url = args.prometheus_url
        /\ FailureReport.error.checklist
              = << "url", "server", "network_dns", "firewall" >>

\* C26: Connection-failure reporting: every transport failure of the range
\* query is surfaced as the one kind PrometheusConnectionError and its
\* message names the backend URL; the checklist has the four items (URL,
\* server, network/DNS, firewall) for a connection error, a new-connection
\* error and exhausted retries, and the first two of them (URL, server) for
\* a generic request failure.
C26_ConnectionFailureReport ==
    ConnectionFailed =>
        /\ FailureReport.kind = "connection_error"
        /\ FailureReport.error.url = args.prometheus_url
        /\ FailureReport.error.checklist
              = IF FailureCause.class = "RequestException"
                THEN << "url", "server" >>
                ELSE << "url", "server", "network_dns", "firewall" >>

\* a run ended on a generic request failure, reported with the URL and the
\* checklist of two
C26_Witness ==
    /\ ConnectionFailed
    /\ FailureCause.class = "RequestException"
    /\ FailureReport.kind = "connection_error"
    /\ FailureReport.error.url = DEFAULT_PROMETHEUS_URL
    /\ Len(FailureReport.error.checklist) = 2

\* C27: Root-cause extraction: for a connectivity failure whose exception has
\* a chain of nested causes of any depth, the reported error carries the
\* message of the deepest cause of the chain (the exception's own message
\* when it has no cause).
C27_RootCauseExtraction ==
    ConnectionFailed =>
        FailureReport.error.error = FailureCause.chain[Len(FailureCause.chain)]

\* the calendar day (counted from the first day of the epoch year) of a
\* datetime in seconds
DayOf(seconds) == PyFloorDiv(seconds, 86400)

\* C28: Label format is decided once per fetch from the window: all labels
\* of a series are time-only when the window lies within one calendar day and
\* date+time when it spans more than one calendar day (a window from 23:00
\* to 01:00 of the next day gets date+time labels); the labels of one series
\* never mix the two formats.
C28_LabelFormatByCalendarDay ==
    \A i \in 1..Len(all_data) :
        all_data[i].x_labels # None =>
            \A k \in 1..Len(Get(all_data[i].x_labels)) :
                Get(all_data[i].x_labels)[k].format
                    = IF DayOf(queries[i].call.start) = DayOf(queries[i].call.end)
                      THEN "%H:%M"
                      ELSE "%m/%d %H:%M"

\* C29: Series construction: of a non-empty backend result only the first
\* series is used; the labels and the values returned are as many as its
\* samples and in their order, each label that of the sample's timestamp,
\* each value the sample's value with the transform of the metric applied
\* when the metric has one and unchanged when it has none.
C29_SeriesConstruction ==
    \A i \in 1..Len(all_data) :
        DataAnswer(i) =>
            LET samples == queries[i].answer[1].values
                x_labels == Get(all_data[i].x_labels)
                y == Get(all_data[i].y)
            IN  /\ all_data[i].x_labels # None
                /\ all_data[i].y # None
                /\ Len(x_labels) = Len(samples)
                /\ Len(y) = Len(samples)
                /\ \A k \in 1..Len(samples) : x_labels[k].ts = samples[k][1]
                /\ y = PlottedValues(all_data[i].metric, queries[i].answer)

\* a result of two series for a metric with a transform: the one sample of
\* the first series is returned, in GB
C29_Witness ==
    /\ all_data # << >>
    /\ all_data[1].metric = KeyEtcdMemory
    /\ queries[1].answer = << SeriesB, SeriesA >>
    /\ Get(all_data[1].y) = << 1 >>
    /\ Len(Get(all_data[1].x_labels)) = 1

\* C30: One window per invocation: the window and the step are resolved once
\* from the command line, and in multi-metric mode every fetch of the batch
\* queries the backend over the same start, end and step, also when --to (or
\* --from and --to) is omitted and the clock advances between the fetches.
C30_OneWindowPerInvocation ==
    \A i, j \in 1..Len(queries) :
        /\ queries[i].call.start = queries[j].call.start
        /\ queries[i].call.end = queries[j].call.end
        /\ queries[i].call.step = queries[j].call.step

=============================================================================
